---- MODULE Spec2Model ----
(***************************************************************************)
(* A model of g2p's Mapping class (g2p/mappings/__init__.py) and of the    *)
(* helpers it uses (g2p/mappings/utils.py).                                *)
(*                                                                         *)
(* Python strings are sequences of characters; a character is a one-token  *)
(* string ("a", ".", "e_acute" for U+00E9, "acute" for U+0301, ...).       *)
(* Python dicts and lists are objects with identity: `heap` holds the rule *)
(* dicts and `lists` the list objects, both indexed by object id, so that  *)
(* two names of one object are two occurrences of one id.                  *)
(***************************************************************************)
EXTENDS Integers, Sequences, FiniteSets, TLC

VARIABLES
    heap,      \* rule dicts by object id
    lists,     \* list objects by object id: sequences of dict ids
    maps,      \* the Mapping instances by id (self.mapping, self.kwargs, ...)
    calls,     \* the constructor calls the client still has to make
    pc,        \* position of the running constructor inside Mapping.__init__
    self,      \* id of the Mapping under construction
    local,     \* process_kwargs' local `mapping` and the loop iterators
    results,   \* what each finished constructor call returned or raised
    files,     \* names of the files in the export directory
    exported,  \* the export operations made and how each ended
    lb,        \* input and output of the lookbehind rewrite
    given,     \* the rule dicts as the client first held them
    reads      \* the indexed and sliced reads made and what each returned

vars == <<heap, lists, maps, calls, pc, self, local, results, files,
          exported, lb, given, reads>>

(***************************************************************************)
(* Bounds of the model.                                                    *)
(***************************************************************************)
MaxLen == 2        \* longest caller-supplied rule list
MaxKw == 2         \* most flags supplied to one constructor call
MaxAlts == 3       \* most alternatives in one run of a left context
MaxAbbs == 2       \* most tokens in one abbreviation table
MaxExports == 2    \* most export operations of one client
MaxLookups == 2    \* most constructions of a client that names its mappings
MaxReads == 1      \* most indexed or sliced reads of one client

(***************************************************************************)
(* Strings.                                                                *)
(***************************************************************************)
RECURSIVE Concat(_)
Concat(ss) == IF ss = <<>> THEN <<>> ELSE Head(ss) \o Concat(Tail(ss))

RECURSIVE Join(_, _)
Join(sep, ss) ==
    IF ss = <<>> THEN <<>>
    ELSE IF Len(ss) = 1 THEN ss[1]
    ELSE ss[1] \o sep \o Join(sep, Tail(ss))

Range(s) == {s[i] : i \in 1..Len(s)}

\* the characters with Unicode property L (letter) and M (combining mark)
Letters == {"a", "b", "k", "x", "y", "e", "A", "V", "C", "e_acute"}
Marks == {"acute"}
Digits == {"0", "1", "6", "9"}
HexDigits == Digits \cup {"a", "b", "e", "A"}

\* str.lower on one character
LowerChar(c) == CASE c = "A" -> "a" [] c = "V" -> "v" [] c = "C" -> "c" [] OTHER -> c
StrLower(s) == [i \in 1..Len(s) |-> LowerChar(s[i])]

\* the characters regex.escape puts a backslash before
MetaChars == {"(", ")", "[", "]", "{", "}", "?", "*", "+", "|", "^", "$",
              "\\", ".", "-", "#", "&", "~"}
EscapeChar(c) == IF c \in MetaChars THEN <<"\\", c>> ELSE <<c>>
ReEscape(s) == Concat([i \in 1..Len(s) |-> EscapeChar(s[i])])

\* canonical decomposition and composition of one character
Decompose(c) == IF c = "e_acute" THEN <<"e", "acute">> ELSE <<c>>
RECURSIVE Compose(_)
Compose(s) ==
    IF Len(s) < 2 THEN s
    ELSE IF s[1] = "e" /\ s[2] = "acute"
         THEN <<"e_acute">> \o Compose(Tail(Tail(s)))
         ELSE <<s[1]>> \o Compose(Tail(s))

normalize(s, form) ==
    LET d == Concat([i \in 1..Len(s) |-> Decompose(s[i])])
    IN  IF form \in {"NFD", "NFKD"} THEN d ELSE Compose(d)

\* chr(n) for the private-use code points
Chr(n) == "chr" \o ToString(n)

\* a conversion that forgets the offset
StringToPuaSameChar(string, offset) == [i \in 1..Len(string) |-> Chr(983040)]
string_to_pua(string, offset) == [i \in 1..Len(string) |-> Chr(983040 + offset)]

(***************************************************************************)
(* Python list helpers.                                                    *)
(***************************************************************************)
\* list.index(x), 1-based: the first position holding a value equal to x
\* (0 when there is none)
IndexOf(seq, x) ==
    IF \E i \in 1..Len(seq) : seq[i] = x
    THEN CHOOSE i \in 1..Len(seq) :
            seq[i] = x /\ \A j \in 1..(i - 1) : seq[j] # x
    ELSE 0

RemoveAt(seq, i) == SubSeq(seq, 1, i - 1) \o SubSeq(seq, i + 1, Len(seq))

\* sorted(..., reverse=True) on the keys: the positions of `keys` in
\* descending key order, equal keys keeping their original order
RECURSIVE SortedPositions(_, _)
SortedPositions(keys, n) ==
    IF n = 0 THEN <<>>
    ELSE LET p == SortedPositions(keys, n - 1)
             k == Cardinality({i \in 1..Len(p) : keys[p[i]] >= keys[n]})
         IN  SubSeq(p, 1, k) \o <<n>> \o SubSeq(p, k + 1, Len(p))

\* sorted(seq, key=...): ascending, equal keys in their original order
SortedForward(seq, keys) ==
    LET p == SortedPositions([i \in 1..Len(keys) |-> 0 - keys[i]], Len(keys))
    IN  [i \in 1..Len(seq) |-> seq[p[i]]]

\* sorted(seq, key=..., reverse=True), keys[i] being the key of seq[i]
SortedReverse(seq, keys) ==
    LET p == SortedPositions(keys, Len(keys))
    IN  [i \in 1..Len(seq) |-> seq[p[i]]]

\* str.split(sep) for a one-character separator
RECURSIVE Split(_, _)
Split(s, sep) ==
    IF sep \notin Range(s) THEN <<s>>
    ELSE LET i == IndexOf(s, sep)
         IN  <<SubSeq(s, 1, i - 1)>> \o Split(SubSeq(s, i + 1, Len(s)), sep)

(***************************************************************************)
(* utils.py: the lookbehind compiler.                                      *)
(***************************************************************************)
\* the loop of pattern_to_fixed_width_lookbehinds over the sorted
\* alternatives: the buckets appended to all_lookbehinds
RECURSIVE LookbehindLoop(_, _, _, _, _)
LookbehindLoop(pattern, i, current_len, all_lookbehinds, current_list) ==
    IF i > Len(pattern) THEN all_lookbehinds
    ELSE LET item == pattern[i]
             same == Len(item) = current_len
             all1 == IF same THEN all_lookbehinds
                     ELSE Append(all_lookbehinds, current_list)
             cur1 == IF same THEN Append(current_list, item) ELSE <<item>>
             all2 == IF IndexOf(pattern, item) = Len(pattern)
                     THEN Append(all1, cur1) ELSE all1
         IN  LookbehindLoop(pattern, i + 1, Len(item), all2, cur1)

\* the buckets pattern_to_fixed_width_lookbehinds renders, for the
\* alternatives of one run in their written order
LookbehindBuckets(alternatives) ==
    LET pattern == SortedReverse(alternatives,
                       [i \in 1..Len(alternatives) |-> Len(alternatives[i])])
    IN  LookbehindLoop(pattern, 1, Len(pattern[1]), <<>>, <<>>)

RenderLookbehinds(buckets) ==
    <<"(">> \o
    Join(<<"|">>, [b \in 1..Len(buckets) |->
            <<"(", "?", "<", "=">> \o Join(<<"|">>, buckets[b]) \o <<")">>])
    \o <<")">>

pattern_to_fixed_width_lookbehinds(match) ==
    RenderLookbehinds(LookbehindBuckets(Split(match, "|")))

\* the characters of a run: [\p{L}\p{M}|]
RunChars == Letters \cup Marks \cup {"|"}

\* length of the longest prefix of s made of run characters
RECURSIVE RunLength(_)
RunLength(s) ==
    IF s = <<>> \/ s[1] \notin RunChars THEN 0 ELSE 1 + RunLength(Tail(s))

RECURSIVE create_fixed_width_lookbehind(_)
create_fixed_width_lookbehind(pattern) ==
    IF pattern = <<>> THEN <<>>
    ELSE IF pattern[1] \in RunChars
         THEN LET n == RunLength(pattern)
              IN  pattern_to_fixed_width_lookbehinds(SubSeq(pattern, 1, n))
                  \o create_fixed_width_lookbehind(
                         SubSeq(pattern, n + 1, Len(pattern)))
         ELSE <<pattern[1]>> \o create_fixed_width_lookbehind(Tail(pattern))

(***************************************************************************)
(* Rule dicts and their compilation.                                       *)
(***************************************************************************)
NoPattern == [state |-> "absent", pattern |-> <<>>, ignorecase |-> FALSE]
FalsePattern == [state |-> "False", pattern |-> <<>>, ignorecase |-> FALSE]
NoForm == [present |-> FALSE, value |-> <<>>]

\* a rule record as a loader or a caller supplies it
Rule(i, o, cb, ca) ==
    [in |-> i, out |-> o, context_before |-> cb, context_after |-> ca,
     match_pattern |-> NoPattern, intermediate_form |-> NoForm]

\* length of the digits at the start of s
RECURSIVE DigitRun(_)
DigitRun(s) ==
    IF s = <<>> \/ s[1] \notin Digits THEN 0 ELSE 1 + DigitRun(Tail(s))

\* re.sub(r'{\d+}', "", s)
RECURSIVE StripBackrefs(_)
StripBackrefs(s) ==
    IF s = <<>> THEN <<>>
    ELSE LET d == DigitRun(Tail(s))
         IN  IF s[1] = "{" /\ d > 0 /\ Len(s) >= d + 2 /\ s[d + 2] = "}"
             THEN StripBackrefs(SubSeq(s, d + 3, Len(s)))
             ELSE <<s[1]>> \o StripBackrefs(Tail(s))

\* Mapping.rule_to_regex: False for a null input, else the compiled pattern
rule_to_regex(rule, case_sensitive) ==
    IF rule.in = <<>> THEN FalsePattern
    ELSE LET before == rule.context_before
             after == rule.context_after
             inp == create_fixed_width_lookbehind(before)
                    \o StripBackrefs(rule.in)
                    \o (IF after # <<>>
                        THEN <<"(", "?", "=">> \o after \o <<")">>
                        ELSE <<>>)
         IN  [state |-> "compiled", pattern |-> inp,
              ignorecase |-> ~case_sensitive]

(***************************************************************************)
(* Keyword arguments: an insertion-ordered dict, as a sequence of          *)
(* key/value pairs with distinct keys. Values are written as Python writes *)
(* them: "True", "False", "NFD", "" ...                                    *)
(***************************************************************************)
KV(k, v) == [k |-> k, v |-> v]
Keys(kw) == {kw[i].k : i \in 1..Len(kw)}
Get(kw, key) == kw[CHOOSE i \in 1..Len(kw) : kw[i].k = key].v
GetOr(kw, key, default) == IF key \in Keys(kw) THEN Get(kw, key) ELSE default
Truthy(v) == v \notin {"False", ""}
SetDefault(kw, key, v) == IF key \in Keys(kw) THEN kw ELSE Append(kw, KV(key, v))

SelectSeq2(seq, keep) ==
    LET F[i \in 0..Len(seq)] ==
            IF i = 0 THEN <<>>
            ELSE IF seq[i].k \in keep THEN Append(F[i - 1], seq[i]) ELSE F[i - 1]
    IN  F[Len(seq)]

\* a merge that puts the keys of second first
MergeKwargsCallerFirst(first, second) ==
    second \o SelectSeq2(first, Keys(first) \ Keys(second))

\* {**first, **second}: the keys of first in their order, with second's
\* value where second has the key, then the other keys of second
MergeKwargs(first, second) ==
    [i \in 1..Len(first) |->
        KV(first[i].k, GetOr(second, first[i].k, first[i].v))]
    \o SelectSeq2(second, Keys(second) \ Keys(first))

allowable_kwargs ==
    {"language_name", "display_name", "mapping", "in_lang", "out_lang",
     "out_delimiter", "as_is", "case_sensitive", "escape_special",
     "norm_form", "prevent_feeding", "reverse"}

(***************************************************************************)
(* The Language Mapping Registry (g2p.mappings.langs.MAPPINGS_AVAILABLE):  *)
(* its rule dicts are the first objects of the heap, its rule lists the    *)
(* first list objects.                                                     *)
(***************************************************************************)
RegistryHeap ==
    << Rule(<<"a">>, <<"b">>, <<>>, <<>>),
       Rule(<<"a", "b">>, <<"k">>, <<>>, <<>>),
       Rule(<<"A">>, <<"x">>, <<"V">>, <<>>),
       Rule(<<"b">>, <<"c">>, <<>>, <<>>) >>

RegistryLists == << <<1, 2>>, <<3>>, <<4>> >>

MAPPINGS_AVAILABLE ==
    << [config |-> << KV("in_lang", "l1"), KV("out_lang", "l2"),
                      KV("id", "m1"), KV("as_is", "False"),
                      KV("mapping", "l1_to_l2.csv") >>,
        mapping_data |-> 1,
        has_abbreviations |-> FALSE,
        abbreviations_data |-> <<>>],
       [config |-> << KV("in_lang", "l1"), KV("out_lang", "l3"),
                      KV("case_sensitive", "False"), KV("authors", "x"),
                      KV("mapping", "l1_to_l3.csv"),
                      KV("abbreviations", "abbs.csv") >>,
        mapping_data |-> 2,
        has_abbreviations |-> TRUE,
        abbreviations_data |->
            << [abb |-> <<"V">>, stands_for |-> << <<"a">>, <<"e">> >>] >>],
       [config |-> << KV("in_lang", "l1"), KV("out_lang", "l2"),
                      KV("id", "m1"), KV("mapping", "l1_to_l2_old.csv") >>,
        mapping_data |-> 3,
        has_abbreviations |-> FALSE,
        abbreviations_data |-> <<>>] >>

\* a search that compares in_lang alone
FindMappingByInLang(in_lang, out_lang) ==
    LET hit(i) == GetOr(MAPPINGS_AVAILABLE[i].config, "in_lang", "") = in_lang
    IN  IF \E i \in 1..Len(MAPPINGS_AVAILABLE) : hit(i)
        THEN CHOOSE i \in 1..Len(MAPPINGS_AVAILABLE) :
                hit(i) /\ \A j \in 1..(i - 1) : ~hit(j)
        ELSE 0

\* position in the catalog of the first entry with exactly this pair
\* (0: none)
find_mapping(in_lang, out_lang) ==
    LET hit(i) == /\ GetOr(MAPPINGS_AVAILABLE[i].config, "in_lang", "") = in_lang
                  /\ GetOr(MAPPINGS_AVAILABLE[i].config, "out_lang", "") = out_lang
    IN  IF \E i \in 1..Len(MAPPINGS_AVAILABLE) : hit(i)
        THEN CHOOSE i \in 1..Len(MAPPINGS_AVAILABLE) :
                hit(i) /\ \A j \in 1..(i - 1) : ~hit(j)
        ELSE 0

\* position in the catalog of the first entry with this id (0: None)
find_mapping_by_id(map_id) ==
    LET hit(i) == GetOr(MAPPINGS_AVAILABLE[i].config, "id", "") = map_id
    IN  IF \E i \in 1..Len(MAPPINGS_AVAILABLE) : hit(i)
        THEN CHOOSE i \in 1..Len(MAPPINGS_AVAILABLE) :
                hit(i) /\ \A j \in 1..(i - 1) : ~hit(j)
        ELSE 0

\* deepcopy of a list of rule dicts: fresh dicts in a fresh list
DeepCopyList(h, l, lid) ==
    LET src == l[lid]
        ids == [i \in 1..Len(src) |-> Len(h) + i]
    IN  [heap |-> h \o [i \in 1..Len(src) |-> h[src[i]]],
         lists |-> Append(l, ids),
         id |-> Len(l) + 1]

(***************************************************************************)
(* Abbreviation expansion.                                                 *)
(***************************************************************************)
\* chr(int(hex, 16)) for the code points the model's tables write
escape_to_codepoint(hex) ==
    CASE hex = <<"0", "0", "6", "1">> -> "a"
      [] hex = <<"0", "0", "e", "9">> -> "e_acute"
      [] OTHER -> "other"

RECURSIVE unicode_escape(_)
unicode_escape(text) ==
    IF text = <<>> THEN <<>>
    ELSE IF /\ Len(text) >= 6 /\ text[1] = "\\" /\ text[2] = "u"
            /\ \A i \in 3..6 : text[i] \in HexDigits
         THEN <<escape_to_codepoint(SubSeq(text, 3, 6))>>
              \o unicode_escape(SubSeq(text, 7, Len(text)))
         ELSE IF /\ Len(text) >= 8 /\ text[1] = "\\" /\ text[2] = "U"
                 /\ \A i \in 3..8 : text[i] \in HexDigits
              THEN <<escape_to_codepoint(SubSeq(text, 3, 8))>>
                   \o unicode_escape(SubSeq(text, 9, Len(text)))
              ELSE <<text[1]>> \o unicode_escape(Tail(text))

\* re.search(token, s) for a token of literal characters
ReSearch(token, s) ==
    \E i \in 1..(Len(s) - Len(token) + 1) :
        SubSeq(s, i, i + Len(token) - 1) = token

\* a substitution that stops after the first occurrence
ReSubFirst(token, repl, s) ==
    IF \E i \in 1..(Len(s) - Len(token) + 1) :
            SubSeq(s, i, i + Len(token) - 1) = token
    THEN LET p == CHOOSE i \in 1..(Len(s) - Len(token) + 1) :
                    /\ SubSeq(s, i, i + Len(token) - 1) = token
                    /\ \A j \in 1..(i - 1) :
                        SubSeq(s, j, j + Len(token) - 1) # token
         IN  SubSeq(s, 1, p - 1) \o repl \o SubSeq(s, p + Len(token), Len(s))
    ELSE s

\* re.sub(token, repl, s) for a token and a replacement of literal
\* characters: the leftmost non-overlapping occurrences are replaced
RECURSIVE ReSub(_, _, _)
ReSub(token, repl, s) ==
    IF Len(s) < Len(token) THEN s
    ELSE IF SubSeq(s, 1, Len(token)) = token
         THEN repl \o ReSub(token, repl, SubSeq(s, Len(token) + 1, Len(s)))
         ELSE <<s[1]>> \o ReSub(token, repl, Tail(s))

\* lines 86-89 for one rule dict and one (abb, stands_for) item
ExpandDict(d, item) ==
    LET abb_repl == unicode_escape(Join(<<"|">>, item.stands_for))
        sub(v) == IF ReSearch(item.abb, v) THEN ReSub(item.abb, abb_repl, v)
                  ELSE v
    IN  [d EXCEPT !.in = sub(@), !.out = sub(@),
                  !.context_before = sub(@), !.context_after = sub(@)]

\* lines 82-89 for one (abb, stands_for) item: the dicts of the list are
\* rewritten one after the other, in list order
ExpandAbbreviation(h, ids, item) ==
    LET G[i \in 0..Len(ids)] ==
            IF i = 0 THEN h
            ELSE [G[i - 1] EXCEPT ![ids[i]] = ExpandDict(@, item)]
    IN  IF ids # <<>> /\ h[ids[1]].match_pattern.state = "absent"
        THEN G[Len(ids)]
        ELSE h

(***************************************************************************)
(* The flag steps of process_kwargs, on the heap and the local list.       *)
(***************************************************************************)
InLengths(h, ids) == [i \in 1..Len(ids) |-> Len(h[ids[i]].in)]

\* sorted(mapping, key=lambda x: len(x["in"]), reverse=True)
SortByInLength(h, ids) == SortedReverse(ids, InLengths(h, ids))

\* utils.escape_special_characters on one dict: every value is escaped; a
\* value that is not a string (a compiled pattern, False) raises TypeError
escape_special_characters(d) ==
    [d EXCEPT !.in = ReEscape(@), !.out = ReEscape(@),
              !.context_before = ReEscape(@), !.context_after = ReEscape(@),
              !.intermediate_form.value = ReEscape(@)]

EscapeRaises(h, ids) ==
    \E i \in 1..Len(ids) : h[ids[i]].match_pattern.state # "absent"

\* the dicts escaped before the list comprehension raises: those before
\* the first compiled one, and the string values of that one
EscapedPrefix(ids, h) ==
    IF EscapeRaises(h, ids)
    THEN SubSeq(ids, 1,
            CHOOSE i \in 1..Len(ids) :
                /\ h[ids[i]].match_pattern.state # "absent"
                /\ \A j \in 1..(i - 1) : h[ids[j]].match_pattern.state = "absent")
    ELSE ids

\* [escape_special_characters(x) for x in mapping], over the dicts of ids
EscapeMappings(h, ids) ==
    LET G[i \in 0..Len(ids)] ==
            IF i = 0 THEN h
            ELSE [G[i - 1] EXCEPT ![ids[i]] = escape_special_characters(@)]
    IN  G[Len(ids)]

lower_mappings(h, ids) ==
    LET G[i \in 0..Len(ids)] ==
            IF i = 0 THEN h
            ELSE [G[i - 1] EXCEPT
                    ![ids[i]].in = StrLower(@),
                    ![ids[i]].out = StrLower(@),
                    ![ids[i]].context_before = StrLower(@),
                    ![ids[i]].context_after = StrLower(@)]
    IN  G[Len(ids)]

NormalizeMappings(h, ids, form) ==
    LET G[i \in 0..Len(ids)] ==
            IF i = 0 THEN h
            ELSE [G[i - 1] EXCEPT
                    ![ids[i]].in = normalize(@, form),
                    ![ids[i]].out = normalize(@, form),
                    ![ids[i]].context_before = normalize(@, form),
                    ![ids[i]].context_after = normalize(@, form),
                    ![ids[i]].intermediate_form.value = normalize(@, form)]
    IN  G[Len(ids)]

\* a swap that overwrites `in` and leaves `out`
ReverseMappingsOverwrite(h, ids) ==
    LET G[i \in 0..Len(ids)] ==
            IF i = 0 THEN h
            ELSE [G[i - 1] EXCEPT ![ids[i]].in = G[i - 1][ids[i]].out]
    IN  G[Len(ids)]

reverse_mappings(h, ids) ==
    LET G[i \in 0..Len(ids)] ==
            IF i = 0 THEN h
            ELSE [G[i - 1] EXCEPT ![ids[i]].in = G[i - 1][ids[i]].out,
                                  ![ids[i]].out = G[i - 1][ids[i]].in]
    IN  G[Len(ids)]

\* mapping.index(io), 0-based: the first position whose dict equals io
DictIndex(h, ids, io) ==
    (CHOOSE j \in 1..Len(ids) :
        /\ h[ids[j]] = h[io]
        /\ \A k \in 1..(j - 1) : h[ids[k]] # h[io]) - 1

\* lines 188-189
PreventFeeding(h, ids) ==
    LET G[i \in 0..Len(ids)] ==
            IF i = 0 THEN h
            ELSE LET g == G[i - 1]
                     io == ids[i]
                 IN  [g EXCEPT ![io].intermediate_form =
                        [present |-> TRUE,
                         value |-> string_to_pua(g[io].out,
                                                 DictIndex(g, ids, io))]]
    IN  G[Len(ids)]

\* lines 191-194: the loop that compiles every rule and removes, from the
\* list it is iterating over, the rules rule_to_regex returned False for.
\* i is the list iterator's position.
RECURSIVE CompileLoop(_, _, _, _)
CompileLoop(h, ids, i, case_sensitive) ==
    IF i > Len(ids) THEN [heap |-> h, ids |-> ids]
    ELSE LET io == ids[i]
             h1 == [h EXCEPT ![io].match_pattern =
                        rule_to_regex(h[io], case_sensitive)]
         IN  IF h1[io].match_pattern.state = "False"
             THEN CompileLoop(h1, RemoveAt(ids, DictIndex(h1, ids, io) + 1),
                              i + 1, case_sensitive)
             ELSE CompileLoop(h1, ids, i + 1, case_sensitive)

(***************************************************************************)
(* utils.py: abbreviation tables and configuration documents.              *)
(***************************************************************************)
\* flatten_abbreviations: rows of a CSV file to token -> expansions, a
\* repeated token accumulating its expansions
flatten_abbreviations(data) ==
    LET F[i \in 0..Len(data)] ==
            IF i = 0 THEN <<>>
            ELSE LET line == data[i]
                     t == F[i - 1]
                     more == SelectSeq(Tail(line), LAMBDA l : l # <<>>)
                 IN  IF line[1] = <<>> THEN t
                     ELSE IF \E j \in 1..Len(t) : t[j].abb = line[1]
                          THEN [j \in 1..Len(t) |->
                                   IF t[j].abb = line[1]
                                   THEN [t[j] EXCEPT !.stands_for = @ \o more]
                                   ELSE t[j]]
                          ELSE Append(t, [abb |-> line[1], stands_for |-> more])
    IN  F[Len(data)]

\* the configuration document load_mapping_from_path reads at "config.yaml"
ConfigDocument ==
    [config |-> << KV("in_lang", "l4"), KV("out_lang", "l5"),
                   KV("norm_form", "NFC"), KV("reverse", "True"),
                   KV("mapping", "l4_to_l5.json") >>,
     rules |-> << Rule(<<"e", "acute">>, <<"a", "b">>, <<>>, <<>>),
                  Rule(<<"b">>, <<"x">>, <<>>, <<"a">>) >>]

\* process_loaded_config: what it leaves in self.kwargs
LoadedKwargs(config, kwargs) ==
    MergeKwargs(SelectSeq2(config, allowable_kwargs), kwargs)

(***************************************************************************)
(* Mapping.__init__, in steps.                                             *)
(***************************************************************************)
Instance(lid, kw, abbs) ==
    [mapping |-> lid, kwargs |-> kw, abbreviations |-> abbs,
     processed |-> FALSE, state |-> "init"]

Outcome(status, m, a, b) ==
    [status |-> status, self |-> m, in_lang |-> a, out_lang |-> b]

Raise(status, a, b) ==
    /\ results' = Append(results, Outcome(status, 0, a, b))
    /\ calls' = Tail(calls)
    /\ UNCHANGED <<heap, lists, maps, pc, self, local, files, exported, lb, given, reads>>

Start(h, l, lid, kw, abbs) ==
    /\ heap' = h
    /\ lists' = l
    /\ maps' = Append(maps, Instance(lid, kw, abbs))
    /\ self' = Len(maps) + 1
    /\ local' = [mapping |-> 0, ki |-> 0, ai |-> 1]
    /\ pc' = "abbreviations"
    /\ calls' = Tail(calls)
    /\ UNCHANGED <<results, files, exported, lb, given, reads>>

StartFromEntry(entry, kw) ==
    LET copy == DeepCopyList(heap, lists, entry.mapping_data)
    IN  Start(copy.heap, copy.lists, copy.id,
              LoadedKwargs(entry.config, kw),
              IF entry.has_abbreviations THEN entry.abbreviations_data
              ELSE <<>>)

\* lines 52-79: the abbreviations argument, then the source of the rules
Begin ==
    /\ pc = "idle"
    /\ calls # <<>>
    /\ LET c == Head(calls)
           kw == c.kwargs
           abbs == CASE c.abbreviations.kind = "table" -> c.abbreviations.table
                     [] c.abbreviations.kind = "csv" ->
                            flatten_abbreviations(c.abbreviations.table)
                     [] OTHER -> <<>>
       IN  IF c.abbreviations.kind = "txt"
           THEN Raise("IncorrectFileType", "", "")
           ELSE CASE c.mapping.kind = "list" ->
                        Start(heap, lists, c.mapping.id, kw, abbs)
                  [] c.mapping.kind = "str" ->
                        IF c.mapping.id = 0
                        THEN Raise("MappingMissing", "", "")
                        ELSE Start(heap \o ConfigDocument.rules,
                                   Append(lists,
                                       [i \in 1..Len(ConfigDocument.rules)
                                           |-> Len(heap) + i]),
                                   Len(lists) + 1,
                                   LoadedKwargs(ConfigDocument.config, kw),
                                   <<>>)
                  [] OTHER ->
                        IF {"in_lang", "out_lang"} \subseteq Keys(kw)
                        THEN LET e == find_mapping(Get(kw, "in_lang"),
                                                   Get(kw, "out_lang"))
                             IN  IF e = 0
                                 THEN Raise("MappingMissing",
                                            Get(kw, "in_lang"),
                                            Get(kw, "out_lang"))
                                 ELSE StartFromEntry(MAPPINGS_AVAILABLE[e], kw)
                        ELSE IF "id" \in Keys(kw)
                        THEN LET e == find_mapping_by_id(Get(kw, "id"))
                             IN  IF e = 0
                                 THEN Raise("TypeError", "", "")
                                 ELSE StartFromEntry(MAPPINGS_AVAILABLE[e], kw)
                        ELSE Raise("MalformedLookup", "", "")

\* lines 80-89, one item of self.abbreviations
ExpandStep ==
    /\ pc = "abbreviations"
    /\ local.ai <= Len(maps[self].abbreviations)
    /\ heap' = ExpandAbbreviation(heap, lists[maps[self].mapping],
                                  maps[self].abbreviations[local.ai])
    /\ local' = [local EXCEPT !.ai = @ + 1]
    /\ UNCHANGED <<lists, maps, calls, pc, self, results, files, exported, lb, given, reads>>

AddDefaults(kw) ==
    SetDefault(SetDefault(SetDefault(SetDefault(SetDefault(SetDefault(kw,
        "as_is", "True"), "case_sensitive", "True"),
        "escape_special", "False"), "norm_form", "NFD"),
        "reverse", "False"), "prevent_feeding", "False")

\* lines 90-91 and 158-169: process_kwargs is entered and adds the defaults
EnterProcessKwargs ==
    /\ pc = "abbreviations"
    /\ local.ai > Len(maps[self].abbreviations)
    /\ ~maps[self].processed
    /\ maps' = [maps EXCEPT ![self].kwargs = AddDefaults(@)]
    /\ local' = [local EXCEPT !.mapping = maps[self].mapping, !.ki = 1]
    /\ pc' = "flags"
    /\ UNCHANGED <<heap, lists, calls, self, results, files, exported, lb, given, reads>>

\* lines 171-189, one iteration of the loop over self.kwargs.items()
FlagStep ==
    /\ pc = "flags"
    /\ local.ki <= Len(maps[self].kwargs)
    /\ LET kwarg == maps[self].kwargs[local.ki].k
           val == maps[self].kwargs[local.ki].v
           ids == lists[local.mapping]
           next == [local EXCEPT !.ki = @ + 1]
       IN  CASE kwarg = "as_is" /\ ~Truthy(val) ->
                    /\ lists' = Append(lists, SortByInLength(heap, ids))
                    /\ local' = [next EXCEPT !.mapping = Len(lists) + 1]
                    /\ UNCHANGED <<heap, maps, pc, results>>
             [] kwarg = "escape_special" /\ Truthy(val) ->
                    /\ heap' = EscapeMappings(heap, EscapedPrefix(ids, heap))
                    /\ IF EscapeRaises(heap, ids)
                       THEN /\ results' = Append(results,
                                    Outcome("TypeError", self, "", ""))
                            /\ maps' = [maps EXCEPT ![self].state = "raised"]
                            /\ pc' = "idle"
                            /\ UNCHANGED <<lists, local>>
                       ELSE /\ lists' = Append(lists, ids)
                            /\ local' = [next EXCEPT !.mapping = Len(lists) + 1]
                            /\ UNCHANGED <<maps, pc, results>>
             [] kwarg = "case_sensitive" /\ ~Truthy(val) ->
                    /\ heap' = lower_mappings(heap, ids)
                    /\ local' = next
                    /\ UNCHANGED <<lists, maps, pc, results>>
             [] kwarg = "norm_form" /\ Truthy(val) ->
                    /\ heap' = NormalizeMappings(heap, ids, val)
                    /\ local' = next
                    /\ UNCHANGED <<lists, maps, pc, results>>
             [] kwarg = "reverse" /\ Truthy(val) ->
                    /\ heap' = reverse_mappings(heap, ids)
                    /\ local' = next
                    /\ UNCHANGED <<lists, maps, pc, results>>
             [] kwarg = "prevent_feeding" /\ Truthy(val) ->
                    /\ heap' = PreventFeeding(heap, ids)
                    /\ local' = next
                    /\ UNCHANGED <<lists, maps, pc, results>>
             [] OTHER ->
                    /\ local' = next
                    /\ UNCHANGED <<heap, lists, maps, pc, results>>
    /\ UNCHANGED <<calls, self, files, exported, lb, given, reads>>

\* lines 190-196 and 91: every rule is compiled, the rules with a null
\* input are removed, and the list becomes self.mapping
Compile ==
    /\ pc = "flags"
    /\ local.ki > Len(maps[self].kwargs)
    /\ LET done == CompileLoop(heap, lists[local.mapping], 1,
                       Truthy(Get(maps[self].kwargs, "case_sensitive")))
       IN  /\ heap' = done.heap
           /\ lists' = [lists EXCEPT ![local.mapping] = done.ids]
    /\ maps' = [maps EXCEPT ![self].mapping = local.mapping,
                            ![self].processed = TRUE,
                            ![self].state = "constructed"]
    /\ results' = Append(results, Outcome("constructed", self, "", ""))
    /\ pc' = "idle"
    /\ UNCHANGED <<calls, self, local, files, exported, lb, given, reads>>

Next == Begin \/ ExpandStep \/ EnterProcessKwargs \/ FlagStep \/ Compile

(***************************************************************************)
(* The client: the rule lists it holds and the calls it makes.             *)
(***************************************************************************)
SeqsUpTo(S, n) == UNION {[1..k -> S] : k \in 0..n}

\* the rule records a caller's list is drawn from
RulePool ==
    { Rule(<<>>, <<"x">>, <<>>, <<>>),
      Rule(<<"a">>, <<"b", "b">>, <<"x", "y", "|", "a", "|", "b">>, <<>>),
      Rule(<<"a", "b">>, <<>>, <<>>, <<"b">>),
      Rule(<<"e_acute">>, <<"A">>, <<"a", "|", "a">>, <<>>),
      Rule(<<"A", ".">>, <<"a">>, <<>>, <<>>),
      Rule(<<"a", "{", "1", "}">>, <<"b">>, <<>>, <<>>) }

\* the flags a caller supplies, with the values it supplies for them
FlagPairs ==
    { KV("as_is", "True"), KV("as_is", "False"),
      KV("case_sensitive", "False"), KV("escape_special", "True"),
      KV("norm_form", ""), KV("norm_form", "NFC"), KV("norm_form", "NFD"),
      KV("reverse", "True"), KV("prevent_feeding", "True") }

KwargSeqs(pairs, n) ==
    {kw \in SeqsUpTo(pairs, n) :
        \A i, j \in 1..Len(kw) : i # j => kw[i].k # kw[j].k}

NoAbbreviations == [kind |-> "False", table |-> <<>>]
CallerList == Len(RegistryLists) + 1

ListCall(kw, abbs) ==
    [mapping |-> [kind |-> "list", id |-> CallerList],
     abbreviations |-> abbs, kwargs |-> kw]

\* the state before the client's first call: the registry and the client's
\* own rule list on the heap, no Mapping yet
Client(rules, cs) ==
    /\ heap = RegistryHeap \o rules
    /\ given = RegistryHeap \o rules
    /\ lists = Append(RegistryLists,
                      [i \in 1..Len(rules) |-> Len(RegistryHeap) + i])
    /\ maps = <<>>
    /\ calls = cs
    /\ pc = "idle"
    /\ self = 0
    /\ local = [mapping |-> 0, ki |-> 0, ai |-> 0]
    /\ results = <<>>
    /\ files = {}
    /\ exported = <<>>
    /\ reads = <<>>
    /\ lb = [input |-> <<>>, done |-> FALSE, buckets |-> <<>>, output |-> <<>>]

\* one Mapping built from the client's list with any flags
InitFlags ==
    \E rules \in SeqsUpTo(RulePool, MaxLen) :
        \E kw \in KwargSeqs(FlagPairs, MaxKw) :
            Client(rules, <<ListCall(kw, NoAbbreviations)>>)

\* the rule records and the abbreviation tables of a client that
\* abbreviates
AbbRulePool ==
    { Rule(<<"V">>, <<"a">>, <<"C">>, <<>>),
      Rule(<<"a", "V", "V">>, <<"b">>, <<>>, <<"V", "C">>),
      Rule(<<"b">>, <<"C", "a">>, <<"a">>, <<>>) }

AbbItems ==
    { [abb |-> <<"V">>, stands_for |-> << <<"a">>, <<"b">> >>],
      [abb |-> <<"V">>, stands_for |-> << <<"C">>, <<"a">> >>],
      [abb |-> <<"C">>, stands_for |-> << <<"k">> >>],
      [abb |-> <<"C">>,
       stands_for |-> << <<"\\", "u", "0", "0", "e", "9">>, <<"x">> >>],
      [abb |-> <<"V", "C">>, stands_for |-> << <<"y">> >>] }

AbbTables ==
    {t \in SeqsUpTo(AbbItems, MaxAbbs) :
        \A i, j \in 1..Len(t) : i # j => t[i].abb # t[j].abb}

\* the rows of the CSV files a client names as its abbreviations
AbbFiles ==
    { << <<<<"V">>, <<"a">>, <<>>, <<"b">>>>, <<<<>>, <<"x">>>>,
         <<<<"V">>, <<"k">>>> >> }

\* one Mapping built from the client's list with an abbreviation table
InitAbbreviations ==
    \E rules \in SeqsUpTo(AbbRulePool, MaxLen) :
        \E abbs \in {[kind |-> "table", table |-> t] : t \in AbbTables}
                    \cup {[kind |-> "csv", table |-> f] : f \in AbbFiles} :
            \E kw \in {<<>>, <<KV("norm_form", "")>>} :
                Client(rules, <<ListCall(kw, abbs)>>)

\* the keyword arguments of a client that names its mapping
LookupPairs ==
    { KV("in_lang", "l1"), KV("out_lang", "l2"), KV("out_lang", "l3"),
      KV("out_lang", "zz"), KV("id", "m1"), KV("id", "zz"),
      KV("as_is", "True"), KV("norm_form", "NFC"),
      KV("prevent_feeding", "True") }

\* one Mapping built with no rule list: from a configuration path, a
\* language pair, an id, or nothing
InitLookup ==
    \E kw \in KwargSeqs(LookupPairs, 3) :
        \E src \in {[kind |-> "None", id |-> 0], [kind |-> "str", id |-> 0],
                    [kind |-> "str", id |-> 1]} :
            \E abbs \in {NoAbbreviations, [kind |-> "txt", table |-> <<>>],
                         [kind |-> "csv", table |-> CHOOSE f \in AbbFiles : TRUE]} :
                Client(<<>>, << [mapping |-> src, abbreviations |-> abbs,
                                 kwargs |-> kw] >>)

Init == InitFlags \/ InitAbbreviations \/ InitLookup

Spec == Init /\ [][Next]_vars

\* the second call of a client that builds two Mappings: from the list it
\* built the first from, from a configuration path, or by language pair
SecondCalls ==
    {ListCall(kw, NoAbbreviations) : kw \in KwargSeqs(FlagPairs, 1)}
    \cup {[mapping |-> [kind |-> "str", id |-> 1],
           abbreviations |-> NoAbbreviations, kwargs |-> kw] :
                kw \in KwargSeqs(FlagPairs, 1)}
    \cup {[mapping |-> [kind |-> "None", id |-> 0],
           abbreviations |-> NoAbbreviations,
           kwargs |-> <<KV("in_lang", "l1"), KV("out_lang", o)>> \o kw] :
                o \in {"l2", "l3"}, kw \in KwargSeqs(FlagPairs, 1)}

\* two Mappings built one after the other by one client
InitShare ==
    \E rules \in SeqsUpTo(RulePool, MaxLen) :
        \E kw \in KwargSeqs(FlagPairs, 1) :
            \E second \in SecondCalls :
                Client(rules, <<ListCall(kw, NoAbbreviations), second>>)

SpecShare == InitShare /\ [][Next]_vars

\* the calls of a client that builds its Mappings from the registry: by
\* language pair or by id, with at most one flag of its own
RegistryCalls ==
    {[mapping |-> [kind |-> "None", id |-> 0],
      abbreviations |-> NoAbbreviations,
      kwargs |-> name \o kw] :
        name \in { <<KV("in_lang", "l1"), KV("out_lang", "l2")>>,
                   <<KV("in_lang", "l1"), KV("out_lang", "l3")>>,
                   <<KV("in_lang", "l1"), KV("out_lang", "zz")>>,
                   <<KV("id", "m1")>>, <<KV("id", "")>>, <<KV("id", "zz")>> },
        kw \in { <<>>, <<KV("reverse", "True")>>,
                 <<KV("case_sensitive", "False")>>,
                 <<KV("prevent_feeding", "True")>> }}

\* a sequence of constructions from the registry by one client
InitRegistry ==
    \E cs \in SeqsUpTo(RegistryCalls, MaxLookups) :
        cs # <<>> /\ Client(<<>>, cs)

SpecRegistry == InitRegistry /\ [][Next]_vars

(***************************************************************************)
(* Export: mapping_to_file, config_to_file, to_file. A directory is the    *)
(* set of the names of its files.                                          *)
(***************************************************************************)
Written(fs, status, wrote) == [files |-> fs \cup wrote, status |-> status, wrote |-> wrote]

RuleTableName(kw, file_type) ==
    GetOr(kw, "in_lang", "und") \o "_to_" \o GetOr(kw, "out_lang", "und")
    \o "." \o file_type

\* an export that opens the file before it looks at the type
MappingToFileOpensFirst(fs, kw, isdir, file_type) ==
    IF ~isdir THEN Written(fs, "Exception", {})
    ELSE IF file_type \in {"json", "csv"}
         THEN Written(fs, "ok", {RuleTableName(kw, file_type)})
         ELSE Written(fs, "IncorrectFileType", {RuleTableName(kw, file_type)})

mapping_to_file(fs, kw, isdir, file_type) ==
    IF ~isdir THEN Written(fs, "Exception", {})
    ELSE IF file_type \in {"json", "csv"}
         THEN Written(fs, "ok", {RuleTableName(kw, file_type)})
         ELSE Written(fs, "IncorrectFileType", {})

config_to_file(fs, kw, isdir, mapping_type) ==
    IF ~isdir THEN Written(fs, "Exception", {})
    ELSE Written(fs, "ok", {"config.yaml"})

to_file(fs, kw, isdir, mapping_type) ==
    LET first == mapping_to_file(fs, kw, isdir, mapping_type)
        second == config_to_file(first.files, kw, isdir, mapping_type)
    IN  IF first.status # "ok" THEN first
        ELSE Written(fs, second.status, first.wrote \cup second.wrote)

FileTypes == {"csv", "json", "xlsx"}

\* a client exports a constructed Mapping
Export(op, m, isdir, file_type) ==
    /\ pc = "idle"
    /\ calls = <<>>
    /\ Len(exported) < MaxExports
    /\ maps[m].state = "constructed"
    /\ LET r == CASE op = "mapping_to_file" ->
                        mapping_to_file(files, maps[m].kwargs, isdir, file_type)
                  [] op = "config_to_file" ->
                        config_to_file(files, maps[m].kwargs, isdir, file_type)
                  [] OTHER ->
                        to_file(files, maps[m].kwargs, isdir, file_type)
       IN  /\ files' = r.files
           /\ exported' = Append(exported,
                [op |-> op, isdir |-> isdir, file_type |-> file_type,
                 status |-> r.status, wrote |-> r.wrote, before |-> files])
    /\ UNCHANGED <<heap, lists, maps, calls, pc, self, local, results, lb, given, reads>>

MappingToFile ==
    \E m \in 1..Len(maps), isdir \in BOOLEAN, t \in FileTypes :
        Export("mapping_to_file", m, isdir, t)

ConfigToFile ==
    \E m \in 1..Len(maps), isdir \in BOOLEAN, t \in FileTypes :
        Export("config_to_file", m, isdir, t)

ToFile ==
    \E m \in 1..Len(maps), isdir \in BOOLEAN, t \in FileTypes :
        Export("to_file", m, isdir, t)

NextExport == Next \/ MappingToFile \/ ConfigToFile \/ ToFile

\* one Mapping built from a short list, then exported
InitExport ==
    \E rules \in SeqsUpTo(RulePool, 1) :
        \E kw \in {<<>>, <<KV("in_lang", "l1")>>,
                   <<KV("in_lang", "l1"), KV("out_lang", "l2")>>} :
            \E abbs \in {NoAbbreviations,
                         [kind |-> "table",
                          table |-> <<[abb |-> <<"a">>,
                                       stands_for |-> << <<"b">> >>]>>]} :
                Client(rules, <<ListCall(kw, abbs)>>)

SpecExport == InitExport /\ [][NextExport]_vars

(***************************************************************************)
(* Read access: Mapping.__getitem__. Positions are Python's, from 0.       *)
(***************************************************************************)
\* a bound of a slice: an integer, or None
Bound(x) == [given |-> TRUE, at |-> x]
None == [given |-> FALSE, at |-> 0]

\* Python's `x or default`: None and 0 are both false
Or(x, default) == IF ~x.given \/ x.at = 0 THEN default ELSE x.at

\* where list slicing puts a bound of a list of length n
SliceBound(x, n) ==
    IF x < 0 THEN (IF x + n < 0 THEN 0 ELSE x + n)
    ELSE IF x > n THEN n ELSE x

\* seq[start:stop] for integer bounds
ListSlice(seq, start, stop) ==
    LET lo == SliceBound(start, Len(seq))
        hi == SliceBound(stop, Len(seq))
    IN  IF lo < hi THEN SubSeq(seq, lo + 1, hi) ELSE <<>>

\* seq[i] for an integer i
ListItem(seq, i) ==
    IF i >= 0 /\ i < Len(seq) THEN [status |-> "ok", value |-> <<seq[i + 1]>>]
    ELSE IF i < 0 /\ i + Len(seq) >= 0
    THEN [status |-> "ok", value |-> <<seq[i + Len(seq) + 1]>>]
    ELSE [status |-> "IndexError", value |-> <<>>]

getitem(mapping, item) ==
    CASE item.kind = "int" -> ListItem(mapping, item.start.at)
      [] item.kind = "slice" ->
            [status |-> "ok",
             value |-> ListSlice(mapping, Or(item.start, 0),
                                 Or(item.stop, Len(mapping)))]
      [] OTHER -> [status |-> "TypeError", value |-> <<>>]

\* the subscripts a client reads with
Items ==
    {[kind |-> "int", start |-> Bound(i), stop |-> None] : i \in -1..MaxLen}
    \cup {[kind |-> "slice", start |-> s, stop |-> e] :
            s, e \in {None} \cup {Bound(x) : x \in -1..(MaxLen + 1)}}
    \cup {[kind |-> "str", start |-> None, stop |-> None]}

\* a client reads from a constructed Mapping
GetItem ==
    /\ pc = "idle"
    /\ calls = <<>>
    /\ Len(reads) < MaxReads
    /\ \E m \in 1..Len(maps), item \in Items :
        /\ maps[m].state = "constructed"
        /\ LET r == getitem(lists[maps[m].mapping], item)
           IN  reads' = Append(reads,
                    [self |-> m, item |-> item, status |-> r.status,
                     value |-> r.value])
    /\ UNCHANGED <<heap, lists, maps, calls, pc, self, local, results, files,
                   exported, lb, given>>

NextAccess == Next \/ GetItem

\* one Mapping built from a short list, then read
InitAccess ==
    \E rules \in SeqsUpTo(AbbRulePool, MaxLen) :
        \E abbs \in {NoAbbreviations,
                     [kind |-> "table",
                      table |-> <<[abb |-> <<"V">>,
                                   stands_for |-> << <<"a">> >>]>>]} :
            Client(rules, <<ListCall(<<>>, abbs)>>)

SpecAccess == InitAccess /\ [][NextAccess]_vars

(***************************************************************************)
(* The lookbehind rewrite on its own: a left context that is one run of    *)
(* alternatives.                                                           *)
(***************************************************************************)
AltPool == {<<>>, <<"a">>, <<"b">>, <<"x", "y">>}

InitLookbehind ==
    /\ heap = RegistryHeap
    /\ given = RegistryHeap
    /\ lists = RegistryLists
    /\ maps = <<>> /\ calls = <<>> /\ pc = "idle" /\ self = 0
    /\ local = [mapping |-> 0, ki |-> 0, ai |-> 0]
    /\ results = <<>> /\ files = {} /\ exported = <<>> /\ reads = <<>>
    /\ \E alts \in SeqsUpTo(AltPool, MaxAlts) :
        /\ Join(<<"|">>, alts) # <<>>
        /\ lb = [input |-> Join(<<"|">>, alts), done |-> FALSE,
                 buckets |-> <<>>, output |-> <<>>]

\* create_fixed_width_lookbehind applied to the left context
Rewrite ==
    /\ ~lb.done
    /\ lb.input # <<>>
    /\ lb' = [lb EXCEPT !.done = TRUE,
                        !.buckets = LookbehindBuckets(Split(lb.input, "|")),
                        !.output = create_fixed_width_lookbehind(lb.input)]
    /\ UNCHANGED <<heap, lists, maps, calls, pc, self, local, results, files,
                   exported, given, reads>>

SpecLookbehind == InitLookbehind /\ [][Rewrite]_vars

(***************************************************************************)
(* What the claims speak of.                                               *)
(***************************************************************************)
Constructed(m) == maps[m].state = "constructed"
RulesOf(m) == lists[maps[m].mapping]
Flag(m, key) == Get(maps[m].kwargs, key)

\* the key and value of the flag step that has just run
InFlags == pc = "flags" /\ local.ki > 1
LastKey == maps[self].kwargs[local.ki - 1].k
LastVal == maps[self].kwargs[local.ki - 1].v
LocalRules == lists[local.mapping]

\* the step that ends a construction: the compilation loop
CompileTaken ==
    pc = "flags" /\ pc' = "idle" /\ maps'[self].state = "constructed"

Descending(h, ids) ==
    \A i \in 1..(Len(ids) - 1) : Len(h[ids[i]].in) >= Len(h[ids[i + 1]].in)

(***************************************************************************)
(* C1. The rule list after construction is exactly the records of the      *)
(* list handed to compilation whose `in` is non-empty, in the same order:  *)
(* every record with empty `in` is dropped and no other record is.         *)
(***************************************************************************)
C1_ExactlyNullInputsDropped ==
    [][CompileTaken =>
        lists'[maps'[self].mapping] =
            SelectSeq(LocalRules, LAMBDA io : heap[io].in # <<>>)]_vars

(***************************************************************************)
(* C2. After a successful construction every rule of the Mapping has a     *)
(* non-empty `in` and carries a compiled match_pattern.                    *)
(***************************************************************************)
C2_SurvivorsCompiled ==
    \A m \in 1..Len(maps) :
        Constructed(m) =>
            \A i \in 1..Len(RulesOf(m)) :
                /\ heap[RulesOf(m)[i]].in # <<>>
                /\ heap[RulesOf(m)[i]].match_pattern.state = "compiled"

(***************************************************************************)
(* C4. As stated: a Mapping constructed with as_is=false has its rules in  *)
(* descending order of len(in), whatever the other flags and their order;  *)
(* with as_is=true the rules keep their input order.                       *)
(***************************************************************************)
\* dict ids are handed out in input order
InputOrder(ids) == \A i \in 1..(Len(ids) - 1) : ids[i] < ids[i + 1]

C4_SortedAfterConstruction ==
    \A m \in 1..Len(maps) :
        Constructed(m) =>
            /\ ~Truthy(Flag(m, "as_is")) => Descending(heap, RulesOf(m))
            /\ Truthy(Flag(m, "as_is")) => InputOrder(RulesOf(m))

\* no flag step after the as_is step rewrites a rule
AsIsRewrittenLater(m) ==
    LET kw == maps[m].kwargs
        p == CHOOSE i \in 1..Len(kw) : kw[i].k = "as_is"
    IN  \E q \in (p + 1)..Len(kw) :
            \/ kw[q].k = "case_sensitive" /\ ~Truthy(kw[q].v)
            \/ kw[q].k \in {"escape_special", "norm_form", "reverse"}
               /\ Truthy(kw[q].v)

(***************************************************************************)
(* C4, amended. With as_is=false the rules are in descending order of      *)
(* len(in) right after the as_is step, and still are after construction    *)
(* when no flag step that follows it rewrites the rules; with as_is=true   *)
(* the rules keep their input order.                                       *)
(***************************************************************************)
C4_SortedUnlessRewrittenLater ==
    /\ (InFlags /\ LastKey = "as_is" /\ ~Truthy(LastVal)) =>
            Descending(heap, LocalRules)
    /\ \A m \in 1..Len(maps) :
        Constructed(m) =>
            /\ (~Truthy(Flag(m, "as_is")) /\ ~AsIsRewrittenLater(m)) =>
                    Descending(heap, RulesOf(m))
            /\ Truthy(Flag(m, "as_is")) => InputOrder(RulesOf(m))

\* a constructed Mapping whose as_is=false step moved a longer rule ahead of
\* a shorter one
C4_Reordered ==
    \E m \in 1..Len(maps) :
        /\ Constructed(m)
        /\ ~Truthy(Flag(m, "as_is")) /\ ~AsIsRewrittenLater(m)
        /\ \E i \in 1..(Len(RulesOf(m)) - 1) :
            /\ RulesOf(m)[i] > RulesOf(m)[i + 1]
            /\ Len(heap[RulesOf(m)[i]].in) > Len(heap[RulesOf(m)[i + 1]].in)

(***************************************************************************)
(* C5. As stated: in a Mapping constructed with prevent_feeding=true the   *)
(* rule at position i of the resulting list has an intermediate_form of    *)
(* len(out) characters chr(983040 + i), and two different rules never have *)
(* the same intermediate_form.                                             *)
(***************************************************************************)
FormAt(h, ids, i) == h[ids[i]].intermediate_form
ExpectedForm(h, ids, i) ==
    [k \in 1..Len(h[ids[i]].out) |-> Chr(983040 + (i - 1))]

C5_FormsOfResultingList ==
    \A m \in 1..Len(maps) :
        (Constructed(m) /\ Truthy(Flag(m, "prevent_feeding"))) =>
            LET ids == RulesOf(m)
            IN  /\ \A i \in 1..Len(ids) :
                    /\ FormAt(heap, ids, i).present
                    /\ FormAt(heap, ids, i).value = ExpectedForm(heap, ids, i)
                /\ \A i, j \in 1..Len(ids) :
                    i # j => FormAt(heap, ids, i).value # FormAt(heap, ids, j).value

(***************************************************************************)
(* C5, amended. Right after the prevent_feeding=true step, the rule at     *)
(* position i of the list as it then is has an intermediate_form of        *)
(* len(out) characters chr(983040 + i), for the `out` it then has; two     *)
(* different rules have the same intermediate_form only when both have an  *)
(* empty `out`.                                                            *)
(***************************************************************************)
C5_FormsAtTheStep ==
    (InFlags /\ LastKey = "prevent_feeding" /\ Truthy(LastVal)) =>
        LET ids == LocalRules
        IN  /\ \A i \in 1..Len(ids) :
                /\ FormAt(heap, ids, i).present
                /\ FormAt(heap, ids, i).value = ExpectedForm(heap, ids, i)
            /\ \A i, j \in 1..Len(ids) :
                (i # j /\ FormAt(heap, ids, i).value = FormAt(heap, ids, j).value)
                    => (heap[ids[i]].out = <<>> /\ heap[ids[j]].out = <<>>)

\* the step has run over two equal records with a non-empty `out`
C5_DuplicatesGotForms ==
    /\ InFlags /\ LastKey = "prevent_feeding" /\ Truthy(LastVal)
    /\ \E i, j \in 1..Len(LocalRules) :
        /\ i < j
        /\ given[LocalRules[i]] = given[LocalRules[j]]
        /\ heap[LocalRules[j]].out # <<>>
        /\ FormAt(heap, LocalRules, j).value # FormAt(heap, LocalRules, i).value

(***************************************************************************)
(* C10. The reverse=true step leaves in every rule's `in` and `out` the    *)
(* `out` and `in` the rule had before it, and leaves the contexts and the  *)
(* order of the rules as they were; the step applied once more restores    *)
(* every rule.                                                             *)
(***************************************************************************)
ReverseTaken ==
    /\ pc = "flags" /\ pc' = "flags"
    /\ local.ki <= Len(maps[self].kwargs)
    /\ maps[self].kwargs[local.ki].k = "reverse"
    /\ Truthy(maps[self].kwargs[local.ki].v)
    /\ local'.ki = local.ki + 1

C10_ReverseSwapsAndUndoes ==
    [][ReverseTaken =>
        /\ lists'[local'.mapping] = LocalRules
        /\ \A i \in 1..Len(LocalRules) :
            LET before == heap[LocalRules[i]]
                after == heap'[LocalRules[i]]
            IN  /\ after.in = before.out
                /\ after.out = before.in
                /\ after.context_before = before.context_before
                /\ after.context_after = before.context_after
        /\ reverse_mappings(heap', LocalRules) = heap]_vars

\* the step has run first on a rule whose `in` and `out` differ
C10_Reversed ==
    /\ InFlags /\ LastKey = "reverse" /\ Truthy(LastVal)
    /\ \E i \in 1..Len(LocalRules) :
        LET io == LocalRules[i]
        IN  /\ given[io].in # given[io].out
            /\ heap[io].in = given[io].out
            /\ heap[io].out = given[io].in

(***************************************************************************)
(* C3. Mapping instances share no mutable state: no step of a later        *)
(* construction changes the rule list of a Mapping that is already         *)
(* constructed, in length, in order or in any rule's `in`, `out`,          *)
(* `context_before` or `context_after`.                                    *)
(***************************************************************************)
TextOf(d) == <<d.in, d.out, d.context_before, d.context_after>>

C3_NoSharedState ==
    [][\A m \in 1..Len(maps) :
        Constructed(m) =>
            /\ lists'[maps'[m].mapping] = RulesOf(m)
            /\ \A i \in 1..Len(RulesOf(m)) :
                TextOf(heap'[RulesOf(m)[i]]) = TextOf(heap[RulesOf(m)[i]])]_vars

(***************************************************************************)
(* C6. For every run of alternatives the lookbehind rewrite makes buckets  *)
(* such that every alternative of the run is in exactly one bucket (none   *)
(* is lost, a repeated alternative as often as it is written), the         *)
(* alternatives of a bucket have one length, and the buckets are in        *)
(* strictly descending order of that length; xy|a|b renders as             *)
(* ((?<=xy)|(?<=a|b)).                                                     *)
(***************************************************************************)
Count(seq, x) == Cardinality({i \in 1..Len(seq) : seq[i] = x})

C6_BucketsPartitionTheRun ==
    lb.done =>
        LET alts == Split(lb.input, "|")
            all == Concat(lb.buckets)
        IN  /\ \A i \in 1..Len(alts) : Count(all, alts[i]) = Count(alts, alts[i])
            /\ Len(all) = Len(alts)
            /\ \A b \in 1..Len(lb.buckets) :
                /\ lb.buckets[b] # <<>>
                /\ \A i, j \in 1..Len(lb.buckets[b]) :
                    Len(lb.buckets[b][i]) = Len(lb.buckets[b][j])
            /\ \A b \in 1..(Len(lb.buckets) - 1) :
                Len(lb.buckets[b][1]) > Len(lb.buckets[b + 1][1])
            /\ lb.input = <<"x", "y", "|", "a", "|", "b">> =>
                lb.output = <<"(", "(", "?", "<", "=", "x", "y", ")", "|",
                              "(", "?", "<", "=", "a", "|", "b", ")", ")">>

(***************************************************************************)
(* C7. As stated: the expansion of a token replaces, in each of the four   *)
(* text fields of every rule, every occurrence of the token by the         *)
(* "|"-joined alternation of the token's expansion list, and does not      *)
(* change a field of the input rule that contains no occurrence of the     *)
(* token.                                                                  *)
(***************************************************************************)
ExpandTaken ==
    pc = "abbreviations" /\ pc' = "abbreviations" /\ local'.ai = local.ai + 1

Occurrences(token, s) ==
    {p \in 1..(Len(s) - Len(token) + 1) : SubSeq(s, p, p + Len(token) - 1) = token}

\* s with every occurrence of the token replaced, for a token whose
\* occurrences cannot overlap
ReplaceOccurrences(token, repl, s) ==
    LET occ == Occurrences(token, s)
    IN  Concat([i \in 1..Len(s) |->
            IF i \in occ THEN repl
            ELSE IF \E p \in occ : p < i /\ i < p + Len(token) THEN <<>>
            ELSE <<s[i]>>])

C7_EveryOccurrenceReplaced ==
    [][ExpandTaken =>
        LET item == maps[self].abbreviations[local.ai]
            ids == lists[maps[self].mapping]
        IN  \A i \in 1..Len(ids), f \in 1..4 :
                LET before == TextOf(heap[ids[i]])[f]
                    after == TextOf(heap'[ids[i]])[f]
                    input == TextOf(given[ids[i]])[f]
                IN  /\ after = ReplaceOccurrences(item.abb,
                                    Join(<<"|">>, item.stands_for), before)
                    /\ Occurrences(item.abb, input) = {} => after = before]_vars

(***************************************************************************)
(* C7, amended. The expansion of a token replaces, in each of the four     *)
(* text fields of every rule not yet compiled, every occurrence the field  *)
(* has when the token's turn comes (the tokens are expanded one after the  *)
(* other, in table order) by the "|"-joined alternation of the token's     *)
(* expansion list after \uXXXX unescaping, and does not change a field     *)
(* that has no occurrence of the token at that moment.                     *)
(***************************************************************************)
C7_OccurrencesAtItsTurnReplaced ==
    [][ExpandTaken =>
        LET item == maps[self].abbreviations[local.ai]
            ids == lists[maps[self].mapping]
        IN  \A i \in 1..Len(ids), f \in 1..4 :
                LET before == TextOf(heap[ids[i]])[f]
                    after == TextOf(heap'[ids[i]])[f]
                IN  /\ after = ReplaceOccurrences(item.abb,
                            unicode_escape(Join(<<"|">>, item.stands_for)),
                            before)
                    /\ Occurrences(item.abb, before) = {} => after = before]_vars

\* two tokens have been expanded: a rule has a field with two occurrences
\* replaced and a field without tokens unchanged
C7_Expanded ==
    /\ pc = "abbreviations" /\ local.ai = 3
    /\ \E i \in 1..Len(lists[maps[self].mapping]) :
        LET io == lists[maps[self].mapping][i]
        IN  /\ given[io].in = <<"a", "V", "V">>
            /\ heap[io].in # given[io].in
            /\ heap[io].out = given[io].out
            /\ heap[io].context_after # given[io].context_after

(***************************************************************************)
(* C8. As stated: a construction with no rule list and no configuration    *)
(* path fails with MalformedLookup unless the keyword arguments name both  *)
(* in_lang and out_lang, or name an id; when both are named and no         *)
(* registry entry has exactly that pair it fails with MappingMissing       *)
(* carrying the pair; in neither case is a Mapping produced.               *)
(***************************************************************************)
LookupTaken ==
    /\ pc = "idle" /\ calls # <<>> /\ calls' = Tail(calls)
    /\ Head(calls).mapping.kind = "None"

Raised(status) ==
    /\ Len(results') = Len(results) + 1
    /\ results'[Len(results')].status = status

PairInRegistry(a, b) ==
    \E e \in 1..Len(MAPPINGS_AVAILABLE) :
        /\ "in_lang" \in Keys(MAPPINGS_AVAILABLE[e].config)
        /\ "out_lang" \in Keys(MAPPINGS_AVAILABLE[e].config)
        /\ Get(MAPPINGS_AVAILABLE[e].config, "in_lang") = a
        /\ Get(MAPPINGS_AVAILABLE[e].config, "out_lang") = b

LookupErrors ==
    LET kw == Head(calls).kwargs
        both == {"in_lang", "out_lang"} \subseteq Keys(kw)
    IN  /\ Raised("MalformedLookup") <=> (~both /\ "id" \notin Keys(kw))
        /\ (both /\ ~PairInRegistry(Get(kw, "in_lang"), Get(kw, "out_lang")))
            => /\ Raised("MappingMissing")
               /\ results'[Len(results')].in_lang = Get(kw, "in_lang")
               /\ results'[Len(results')].out_lang = Get(kw, "out_lang")
        /\ (Raised("MalformedLookup") \/ Raised("MappingMissing"))
            => (maps' = maps /\ lists' = lists /\ heap' = heap)

C8_LookupErrors == [][LookupTaken => LookupErrors]_vars

(***************************************************************************)
(* C8, amended. The same, for a construction whose abbreviations argument  *)
(* is not the path of a file that is not CSV: such a path fails first,     *)
(* with IncorrectFileType.                                                 *)
(***************************************************************************)
C8_LookupErrorsAfterAbbreviations ==
    [][(LookupTaken /\ Head(calls).abbreviations.kind # "txt")
            => LookupErrors]_vars

\* the pair l1/zz was asked for and refused, and no Mapping exists
C8_PairRefused ==
    /\ maps = <<>>
    /\ \E i \in 1..Len(results) :
        /\ results[i].status = "MappingMissing"
        /\ results[i].in_lang = "l1" /\ results[i].out_lang = "zz"

(***************************************************************************)
(* C9. An export into an existing directory with a file type that is       *)
(* neither csv nor json, by mapping_to_file or by to_file, fails with      *)
(* IncorrectFileType and writes no file: the directory holds afterwards    *)
(* the files it held before.                                               *)
(***************************************************************************)
C9_UnsupportedTypeWritesNothing ==
    /\ \A i \in 1..Len(exported) :
        LET e == exported[i]
            after == IF i < Len(exported) THEN exported[i + 1].before ELSE files
        IN  (e.op \in {"mapping_to_file", "to_file"} /\ e.isdir
                /\ e.file_type \notin {"csv", "json"}) =>
                /\ e.status = "IncorrectFileType"
                /\ e.wrote = {}
                /\ after = e.before

\* to_file was refused for the type xlsx after an export had written files
C9_Refused ==
    \E i \in 1..Len(exported) :
        /\ exported[i].op = "to_file" /\ exported[i].isdir
        /\ exported[i].file_type = "xlsx"
        /\ exported[i].status = "IncorrectFileType"
        /\ exported[i].before # {}
        /\ files = exported[i].before

(***************************************************************************)
(* C11. The registry is never mutated: through any sequence of             *)
(* constructions by language pair or by id every registry entry, its rule  *)
(* records included, keeps its value; and a lookup that starts a Mapping   *)
(* gives it a copy of the first entry in catalog order that matches the    *)
(* requested pair, or the requested id, exactly.                           *)
(***************************************************************************)
RegistryKept ==
    /\ SubSeq(heap, 1, Len(RegistryHeap)) = RegistryHeap
    /\ SubSeq(lists, 1, Len(RegistryLists)) = RegistryLists

\* the entry has the requested pair, or else the requested id
ExactMatch(e, kw) ==
    LET config == MAPPINGS_AVAILABLE[e].config
    IN  IF {"in_lang", "out_lang"} \subseteq Keys(kw)
        THEN /\ {"in_lang", "out_lang"} \subseteq Keys(config)
             /\ Get(config, "in_lang") = Get(kw, "in_lang")
             /\ Get(config, "out_lang") = Get(kw, "out_lang")
        ELSE /\ "id" \in Keys(kw) /\ "id" \in Keys(config)
             /\ Get(config, "id") = Get(kw, "id")

LookupStarted == LookupTaken /\ Len(maps') = Len(maps) + 1

\* the new Mapping holds fresh dicts equal to the rules of entry e
CopyOfEntry(e) ==
    LET src == RegistryLists[MAPPINGS_AVAILABLE[e].mapping_data]
        new == lists'[maps'[self'].mapping]
    IN  /\ Len(new) = Len(src)
        /\ \A i \in 1..Len(src) :
            /\ new[i] > Len(RegistryHeap)
            /\ heap'[new[i]] = RegistryHeap[src[i]]
        /\ maps'[self'].abbreviations = MAPPINGS_AVAILABLE[e].abbreviations_data

CopyOfFirstExactMatch ==
    \E e \in 1..Len(MAPPINGS_AVAILABLE) :
        /\ ExactMatch(e, Head(calls).kwargs)
        /\ \A j \in 1..(e - 1) : ~ExactMatch(j, Head(calls).kwargs)
        /\ CopyOfEntry(e)

C11_RegistryNeverMutated ==
    [][RegistryKept' /\ (LookupStarted => CopyOfFirstExactMatch)]_vars

(***************************************************************************)
(* C12. The flag steps of one construction run in this sequence: the       *)
(* supplied flags (those of the document in document order, then those     *)
(* given at construction that the document does not have, in the order     *)
(* given), then every unset flag with its default in the order as_is,      *)
(* case_sensitive, escape_special, norm_form, reverse, prevent_feeding;    *)
(* each flag's step runs at most once; and no rule is compiled before the  *)
(* last flag step has run.                                                 *)
(***************************************************************************)
FlagOrder ==
    <<"as_is", "case_sensitive", "escape_special", "norm_form", "reverse",
      "prevent_feeding">>

FlagDefault(key) ==
    CASE key = "as_is" -> "True"
      [] key = "case_sensitive" -> "True"
      [] key = "escape_special" -> "False"
      [] key = "norm_form" -> "NFD"
      [] key = "reverse" -> "False"
      [] key = "prevent_feeding" -> "False"

\* the flag keys of a keyword sequence, in its order
FlagsOf(kw) ==
    SelectSeq([i \in 1..Len(kw) |-> kw[i].k], LAMBDA k : k \in Range(FlagOrder))

\* the configuration the rules of a call come with
DocumentOf(c) ==
    CASE c.mapping.kind = "list" -> <<>>
      [] c.mapping.kind = "str" -> ConfigDocument.config
      [] OTHER ->
            IF {"in_lang", "out_lang"} \subseteq Keys(c.kwargs)
            THEN MAPPINGS_AVAILABLE[find_mapping(Get(c.kwargs, "in_lang"),
                                    Get(c.kwargs, "out_lang"))].config
            ELSE MAPPINGS_AVAILABLE[find_mapping_by_id(Get(c.kwargs, "id"))].config

\* a construction starts: the supplied flags are in the order stated
SuppliedOrder ==
    (pc = "idle" /\ calls # <<>> /\ Len(maps') = Len(maps) + 1) =>
        LET c == Head(calls)
            doc == DocumentOf(c)
        IN  FlagsOf(maps'[self'].kwargs) =
                FlagsOf(doc)
                \o SelectSeq(FlagsOf(c.kwargs), LAMBDA k : k \notin Keys(doc))

\* the flag pipeline is entered: the unset flags follow, with their
\* defaults, in the fixed order; the supplied ones keep place and value
DefaultsOrder ==
    (pc = "abbreviations" /\ pc' = "flags") =>
        LET before == maps[self].kwargs
            after == maps'[self].kwargs
            unset == SelectSeq(FlagOrder, LAMBDA k : k \notin Keys(before))
        IN  /\ SubSeq(after, 1, Len(before)) = before
            /\ [i \in 1..(Len(after) - Len(before)) |-> after[Len(before) + i]]
                = [i \in 1..Len(unset) |-> KV(unset[i], FlagDefault(unset[i]))]
            /\ local'.ki = 1

\* a step of the pipeline: the next key in sequence and no other, the
\* sequence itself untouched, no key twice in it, nothing compiled
OneFlagAtATime ==
    (pc = "flags" /\ local'.ki # local.ki) =>
        LET kw == maps[self].kwargs
            key == kw[local.ki].k
        IN  /\ local'.ki = local.ki + 1
            /\ maps'[self].kwargs = kw
            /\ \A i, j \in 1..Len(kw) : kw[i].k = kw[j].k => i = j
            /\ local'.mapping # local.mapping
                => key \in {"as_is", "escape_special"}
            /\ heap' # heap
                => key \in {"escape_special", "case_sensitive", "norm_form",
                            "reverse", "prevent_feeding"}
            /\ \A io \in 1..Len(heap) :
                heap'[io].match_pattern = heap[io].match_pattern

\* compilation: every key of the sequence has had its step
CompiledLast ==
    /\ CompileTaken => local.ki = Len(maps[self].kwargs) + 1
    /\ (\E io \in 1..Len(heap) :
            io <= Len(heap') /\ heap'[io].match_pattern # heap[io].match_pattern)
        => CompileTaken

C12_FlagStepsInSequence ==
    [][SuppliedOrder /\ DefaultsOrder /\ OneFlagAtATime /\ CompiledLast]_vars

\* a Mapping built from the configuration document with flags of the
\* caller's own: document flags, then the caller's new one, then defaults
C12_DocumentFlagsFirst ==
    \E m \in 1..Len(maps) :
        /\ Constructed(m)
        /\ Get(maps[m].kwargs, "norm_form") = "NFC"
        /\ FlagsOf(maps[m].kwargs) =
            <<"norm_form", "reverse", "prevent_feeding", "as_is",
              "case_sensitive", "escape_special">>
        /\ \E io \in 1..Len(RulesOf(m)) :
            /\ heap[RulesOf(m)[io]].intermediate_form.present
            /\ heap[RulesOf(m)[io]].match_pattern.state = "compiled"

(***************************************************************************)
(* C13. A sliced read of a Mapping with rule list L, with start s and stop *)
(* e each given or absent, returns the rules of L from position s (0 when  *)
(* absent) up to but excluding position e (len(L) when absent): a bound    *)
(* that is given is honoured as given, only an absent one is replaced by   *)
(* its default. An integer read returns L[i].                              *)
(***************************************************************************)
\* the position a given bound x names in a list of length n
PositionOf(x, n) ==
    LET p == IF x < 0 THEN x + n ELSE x
    IN  IF p < 0 THEN 0 ELSE IF p > n THEN n ELSE p

ExpectedSlice(L, s, e) ==
    LET from == IF s.given THEN PositionOf(s.at, Len(L)) ELSE 0
        upto == IF e.given THEN PositionOf(e.at, Len(L)) ELSE Len(L)
    IN  [k \in 1..(IF upto > from THEN upto - from ELSE 0) |-> L[from + k]]

C13_SliceBoundsHonoured ==
    \A k \in 1..Len(reads) :
        LET r == reads[k]
            L == RulesOf(r.self)
        IN  /\ r.item.kind = "slice" =>
                /\ r.status = "ok"
                /\ r.value = ExpectedSlice(L, r.item.start, r.item.stop)
            /\ (r.item.kind = "int" /\ r.item.start.at >= 0
                    /\ r.item.start.at < Len(L)) =>
                /\ r.status = "ok"
                /\ r.value = <<L[r.item.start.at + 1]>>

====
